---- MODULE Spec2Model ----
(***************************************************************************)
(* The runs of the unified_dw_pipeline DAG (src/airflow/unified_dw_dag.py) *)
(* as a state machine; state, try_number and query_result are those of the *)
(* current run.  The file declares fourteen operators, three task   *)
(* groups, the `>>` dependencies and the retry policy; the transitions are *)
(* those the declarations select: default trigger rule all_success,        *)
(* retries = 2, one sink task deciding the state of the run.               *)
(*                                                                         *)
(* Task-instance states keep their names in the program.  The vocabulary   *)
(* of the specification maps onto them as                                  *)
(*   Pending = "none"            Running = "running"                       *)
(*   Retrying = "up_for_retry"   Succeeded = "success"                     *)
(*   Failed = "failed"           Skipped = "upstream_failed"               *)
(***************************************************************************)
EXTENDS Integers, Sequences, FiniteSets, TLC

VARIABLES
    edges,          \* the dependency relation of the graph definition
    dagrun,         \* "parsing", "import_error", "running", "success", "failed"
    state,          \* task id -> task-instance state
    try_number,     \* task id -> number of attempts started
    query_result,   \* quality-check task id -> "", "PASS" or "FAIL"
    run_id,         \* number of the current run of the DAG
    active_runs,    \* the runs that are in state "running"
    ingestion,      \* one call of PlayStoreDataIngestion.run_pipeline
    analysis        \* one call of PlayStoreStatisticalAnalysis.run_complete_analysis

dag_vars == <<edges, dagrun, state, try_number, query_result, run_id, active_runs>>

vars == <<edges, dagrun, state, try_number, query_result, run_id, active_runs,
          ingestion, analysis>>

----------------------------------------------------------------------------
(* Tasks, named by the Python variable; the value is the task id, which a  *)
(* TaskGroup prefixes with its group id.                                    *)

load_redshift_staging ==
    "redshift_sales_processing.load_staging_tables"
transform_redshift_data ==
    "redshift_sales_processing.transform_sales_data"
export_redshift_to_s3 ==
    "redshift_sales_processing.export_to_s3"
redshift_quality_check ==
    "redshift_sales_processing.data_quality_check"

load_bigquery_data ==
    "bigquery_marketing_processing.load_marketing_data"
transform_bigquery_data ==
    "bigquery_marketing_processing.transform_marketing_data"
export_bigquery_to_gcs ==
    "bigquery_marketing_processing.export_to_gcs"
bigquery_quality_check ==
    "bigquery_marketing_processing.data_quality_check"

refresh_external_tables ==
    "snowflake_integration.refresh_external_tables"
generate_engagement_data ==
    "snowflake_integration.generate_engagement_data"
create_unified_kpis ==
    "snowflake_integration.create_unified_kpis"
cross_platform_validation ==
    "snowflake_integration.cross_platform_validation"

run_dbt_models ==
    "run_dbt_transformations"
pipeline_summary ==
    "send_pipeline_summary"

(* The chains declared inside the three TaskGroup blocks. *)
redshift_chain ==
    <<load_redshift_staging, transform_redshift_data,
      export_redshift_to_s3, redshift_quality_check>>
bigquery_chain ==
    <<load_bigquery_data, transform_bigquery_data,
      export_bigquery_to_gcs, bigquery_quality_check>>
snowflake_chain ==
    <<refresh_external_tables, generate_engagement_data,
      create_unified_kpis, cross_platform_validation>>

Range(s) == {s[i] : i \in 1..Len(s)}

redshift_group == Range(redshift_chain)
bigquery_group == Range(bigquery_chain)
snowflake_group == Range(snowflake_chain)

Tasks ==
    redshift_group \cup bigquery_group \cup snowflake_group
        \cup {run_dbt_models, pipeline_summary}

(* The tasks whose SQL selects 'PASS' or 'FAIL'. *)
QualityChecks ==
    {redshift_quality_check, bigquery_quality_check, cross_platform_validation}

(* Variant: the first task of a group fans out to the others, a >> [b, c, d]. *)
ChainEdgesFanOut(chain) ==
    {<<chain[1], chain[i]>> : i \in 2..Len(chain)}

(* a >> b >> c >> d inside a group. *)
ChainEdges(chain) ==
    {<<chain[i], chain[i + 1]>> : i \in 1..(Len(chain) - 1)}

GroupEdges ==
    ChainEdges(redshift_chain) \cup ChainEdges(bigquery_chain)
        \cup ChainEdges(snowflake_chain)

(* A group's tasks with no upstream (roots) or no downstream (leaves)      *)
(* inside the group; a single operator is a group of one.                  *)
Roots(g) == {n \in g : ~\E m \in g : <<m, n>> \in GroupEdges}
Leaves(g) == {n \in g : ~\E m \in g : <<n, m>> \in GroupEdges}

(* Variant: the group edge wired from the roots of A instead of its leaves. *)
RshiftFromRoots(A, B) == Roots(A) \X Roots(B)

(* A >> B between groups: every leaf of A is upstream of every root of B.  *)
Rshift(A, B) == Leaves(A) \X Roots(B)

(* Variant: the Snowflake group not made to wait for the two phases.      *)
TaskDependenciesNoJoin ==
    GroupEdges
        \cup Rshift(snowflake_group, {run_dbt_models})
        \cup Rshift({run_dbt_models}, {pipeline_summary})

(* Variant: the two phases chained, Redshift before BigQuery.              *)
TaskDependenciesSequentialPhases ==
    GroupEdges
        \cup Rshift(redshift_group, bigquery_group)
        \cup Rshift(redshift_group, snowflake_group)
        \cup Rshift(bigquery_group, snowflake_group)
        \cup Rshift(snowflake_group, {run_dbt_models})
        \cup Rshift({run_dbt_models}, {pipeline_summary})

(* Variant: the summary wired next to the dbt run instead of after it,     *)
(* snowflake_group >> [run_dbt_models, pipeline_summary].                  *)
TaskDependenciesSummaryBesideDbt ==
    GroupEdges
        \cup Rshift(redshift_group, snowflake_group)
        \cup Rshift(bigquery_group, snowflake_group)
        \cup Rshift(snowflake_group, {run_dbt_models})
        \cup Rshift(snowflake_group, {pipeline_summary})

TaskDependencies ==
    GroupEdges
        \cup Rshift(redshift_group, snowflake_group)
        \cup Rshift(bigquery_group, snowflake_group)
        \cup Rshift(snowflake_group, {run_dbt_models})
        \cup Rshift({run_dbt_models}, {pipeline_summary})

(* default_args: retries = 2, so a task is attempted at most three times.  *)
retries == 2
MaxAttempts == retries + 1

(* dag: max_active_runs = 1. *)
max_active_runs == 1

(* Bound of the model: how many distinct tasks may raise in one run.       *)
MaxFailingTasks == 2

(* Bound of the model: how many runs the schedule starts.                  *)
MaxRuns == 2

----------------------------------------------------------------------------
(* Graph definitions handed to validation: the program's own, and the      *)
(* program's with one more edge that closes a cycle.                       *)
ExtraEdges ==
    { {},
      {<<pipeline_summary, load_redshift_staging>>},
      {<<cross_platform_validation, refresh_external_tables>>},
      {<<bigquery_quality_check, bigquery_quality_check>>} }

GraphDefinitions == {TaskDependencies \cup x : x \in ExtraEdges}

(* Topological sort: repeatedly remove the nodes with no upstream among    *)
(* the remaining ones; the definition is cyclic when nodes remain and none *)
(* of them can be removed.                                                  *)
RECURSIVE Blocked(_, _)
Blocked(E, remaining) ==
    \E rest \in {{n \in remaining : \E m \in remaining : <<m, n>> \in E}} :
        IF rest = remaining THEN remaining # {} ELSE Blocked(E, rest)

HasCycle(E) == Blocked(E, Tasks)

Upstream(n) == {m \in Tasks : <<m, n>> \in edges}
Downstream(n) == {m \in Tasks : <<n, m>> \in edges}

----------------------------------------------------------------------------
(* src/scripts/01_data_ingestion.py: PlayStoreDataIngestion.               *)

(* The header of the CSV file: column names the mapping knows, and one it  *)
(* does not.                                                                *)
RawColumns == {"Translated_Review", "Sentiment", "Rating", "App", "Sentiment_Polarity"}

(* clean_dataframe: the standard name of a column.                         *)
column_mapping(c) ==
    CASE c \in {"Translated_Review", "translated_review", "Review", "review"}
             -> "review_text"
      [] c \in {"Sentiment", "sentiment"} -> "sentiment"
      [] c \in {"Rating", "rating", "Star", "star"} -> "rating"
      [] c \in {"App", "app", "App_Name"} -> "app_name"
      [] OTHER -> c

required_columns == {"review_text", "sentiment", "rating"}

(* clean_dataframe: the columns after the rename loop, and the required    *)
(* ones that are still missing (a ValueError when there is one).           *)
rename_columns(columns) == {column_mapping(c) : c \in columns}
missing_columns(columns) == required_columns \ rename_columns(columns)

(* add_features: the engineered columns are added, or overwritten.         *)
add_features(columns) ==
    columns \cup {"review_length", "review_word_count", "review_length_category",
                  "rating_category", "sentiment_binary"}

(* clean_dataframe when no required column is missing: the columns of the  *)
(* frame it returns, after renaming, the row filters (which drop rows, not *)
(* columns), add_features and the two metadata columns.                    *)
clean_dataframe(columns) ==
    add_features(rename_columns(columns))
        \cup {"ingestion_timestamp", "data_source"}

(* validate_data_quality: the names of the checks, in the order of the     *)
(* list.                                                                    *)
quality_checks ==
    << "Total Row Count", "Null Review Text Count", "Rating Distribution",
       "Sentiment Distribution", "Average Review Length" >>

(* run_pipeline: the four steps in the order of the calls.                 *)
run_pipeline ==
    << "load_and_clean_data", "upload_to_gcs", "load_to_bigquery",
       "validate_data_quality" >>

(* The state of a call of run_pipeline(csv_file_path) before its first     *)
(* step; columns is the header of the file.                                *)
IngestionStart(columns) ==
    [ pc      |-> "load_and_clean_data",  \* the step to call next
      trace   |-> << >>,                  \* the steps called so far
      columns |-> columns,                \* header of the CSV file
      df_clean |-> {},                    \* columns of the cleaned frame
      blob    |-> FALSE,                  \* the cleaned CSV is in the bucket
      table   |-> FALSE,                  \* raw_reviews was loaded
      checks  |-> << >>,                  \* outcome of each check attempted
      logged  |-> FALSE,                  \* "completed successfully" was logged
      summary |-> FALSE,                  \* the success summary was printed
      raised  |-> "" ]                    \* step whose exception reached the caller

(* except Exception in run_pipeline: log "Pipeline failed" and re-raise.   *)
PipelineFailed(step) ==
    [ingestion EXCEPT !.pc = "raised", !.raised = step,
                      !.trace = Append(@, step)]

(* Step 1, load_and_clean_data: read_csv and clean_dataframe; raises when  *)
(* the file cannot be read or cleaned, or a required column is missing.    *)
load_and_clean_data ==
    /\ ingestion.pc = "load_and_clean_data"
    /\ \E ok \in BOOLEAN :
          ingestion' =
            IF ok /\ missing_columns(ingestion.columns) = {}
              THEN [ingestion EXCEPT
                      !.pc = "upload_to_gcs",
                      !.trace = Append(@, "load_and_clean_data"),
                      !.df_clean = clean_dataframe(ingestion.columns)]
              ELSE PipelineFailed("load_and_clean_data")
    /\ UNCHANGED <<dag_vars, analysis>>

(* Variant: an upload that fails is logged and the pipeline goes on.       *)
upload_to_gcs_swallows ==
    /\ ingestion.pc = "upload_to_gcs"
    /\ \E ok \in BOOLEAN :
          ingestion' = [ingestion EXCEPT
                          !.pc = "load_to_bigquery",
                          !.trace = Append(@, "upload_to_gcs"),
                          !.blob = ok]
    /\ UNCHANGED <<dag_vars, analysis>>

(* Step 2, upload_to_gcs: upload_from_string returns, or raises before or  *)
(* after the service stored the object; nothing removes the object after   *)
(* a failure.                                                               *)
upload_to_gcs ==
    /\ ingestion.pc = "upload_to_gcs"
    /\ \E stored, ok \in BOOLEAN :
          /\ ok => stored
          /\ ingestion' =
                IF ok
                  THEN [ingestion EXCEPT
                          !.pc = "load_to_bigquery",
                          !.trace = Append(@, "upload_to_gcs"),
                          !.blob = TRUE]
                  ELSE [PipelineFailed("upload_to_gcs") EXCEPT
                          !.blob = @ \/ stored]
    /\ UNCHANGED <<dag_vars, analysis>>

(* Step 3, load_to_bigquery: create the dataset, run the load job from the *)
(* blob (WRITE_TRUNCATE), wait for it, then get_table.  It can raise       *)
(* before the table is loaded, or after: get_table raises, or the wait     *)
(* raises although the job completed.                                      *)
load_to_bigquery ==
    /\ ingestion.pc = "load_to_bigquery"
    /\ \E loaded, ok \in BOOLEAN :
          /\ ok => loaded
          /\ ingestion' =
                IF ok
                  THEN [ingestion EXCEPT
                          !.pc = "validate_data_quality",
                          !.trace = Append(@, "load_to_bigquery"),
                          !.table = TRUE]
                  ELSE [PipelineFailed("load_to_bigquery") EXCEPT
                          !.table = @ \/ loaded]
    /\ UNCHANGED <<dag_vars, analysis>>

(* Step 4, validate_data_quality is called: it builds the list of checks.  *)
validate_data_quality ==
    /\ ingestion.pc = "validate_data_quality"
    /\ ingestion' = [ingestion EXCEPT
                       !.pc = "quality_checks",
                       !.trace = Append(@, "validate_data_quality")]
    /\ UNCHANGED <<dag_vars, analysis>>

(* Variant: the exception of a check is not caught in the loop.            *)
quality_check_raises ==
    /\ ingestion.pc = "quality_checks"
    /\ Len(ingestion.checks) < Len(quality_checks)
    /\ \E ok \in BOOLEAN :
          ingestion' =
            IF ok
              THEN [ingestion EXCEPT !.checks = Append(@, "ok")]
              ELSE [ingestion EXCEPT !.checks = Append(@, "error"),
                                     !.pc = "raised",
                                     !.raised = "validate_data_quality"]
    /\ UNCHANGED <<dag_vars, analysis>>

(* One turn of the loop over quality_checks: the query runs and its rows   *)
(* are logged, or it raises and the except clause logs the error.          *)
quality_check ==
    /\ ingestion.pc = "quality_checks"
    /\ Len(ingestion.checks) < Len(quality_checks)
    /\ \E ok \in BOOLEAN :
          ingestion' = [ingestion EXCEPT
                          !.checks = Append(@, IF ok THEN "ok" ELSE "error")]
    /\ UNCHANGED <<dag_vars, analysis>>

(* The loop is over: validate_data_quality returns None and run_pipeline   *)
(* logs the completion and prints the summary, still inside its try.  The  *)
(* summary has lines that start with U+2705: on a stdout that cannot       *)
(* encode it print raises UnicodeEncodeError, which the except clause logs *)
(* and re-raises; no step raised it.                                       *)
pipeline_completed ==
    /\ ingestion.pc = "quality_checks"
    /\ Len(ingestion.checks) = Len(quality_checks)
    /\ \E encodable \in BOOLEAN :
          ingestion' =
            IF encodable
              THEN [ingestion EXCEPT !.pc = "completed", !.logged = TRUE,
                                     !.summary = TRUE]
              ELSE [ingestion EXCEPT !.pc = "raised", !.logged = TRUE,
                                     !.raised = "summary"]
    /\ UNCHANGED <<dag_vars, analysis>>

----------------------------------------------------------------------------
(* src/scripts/02_statistical_analysis.py: PlayStoreStatisticalAnalysis.   *)

(* Bound of the model: the largest number of positive, and of negative,    *)
(* reviews the t-test query returns.                                        *)
MaxSampleSize == 2

(* load_data_for_analysis: the keys of self.data in the order of the four  *)
(* queries.                                                                 *)
data_queries == << "ttest", "correlation", "descriptive", "summary" >>

(* run_complete_analysis: the six steps in the order of the calls.         *)
run_complete_analysis ==
    << "load_data_for_analysis", "perform_hypothesis_test",
       "analyze_length_rating_correlation", "perform_additional_analyses",
       "generate_statistical_summary", "save_results_to_bigquery" >>

(* The state of a call of run_complete_analysis() on a new object, before  *)
(* its first statement; origin tells what the statistical_results table    *)
(* holds.                                                                   *)
AnalysisStart(origin) ==
    [ pc       |-> "start",                   \* "start", or the step to call next
      trace    |-> << >>,                     \* the steps called so far
      data     |-> {},                        \* keys of self.data
      sample_sizes |-> <<0, 0>>,              \* positive, negative rows of data['ttest']
      results  |-> {},                        \* keys of self.results
      statistical_results |->                 \* the BigQuery table
          [origin |-> origin, sample_sizes |-> <<0, 0>>],
      complete |-> FALSE,                     \* "ANALYSIS COMPLETE" printed, results returned
      raised   |-> "" ]                       \* step whose exception reached the caller

(* except Exception in run_complete_analysis: print and re-raise.          *)
AnalysisFailed(step) ==
    [analysis EXCEPT !.pc = "raised", !.raised = step,
                     !.trace = Append(@, step)]

(* The head of run_complete_analysis: two prints before the try.  The     *)
(* first starts with U+1F680; when print raises, no step is entered, the   *)
(* except clause does not run and the exception reaches the caller.        *)
start_analysis ==
    /\ analysis.pc = "start"
    /\ \E printed \in BOOLEAN :
          analysis' =
            IF printed
              THEN [analysis EXCEPT !.pc = "load_data_for_analysis"]
              ELSE [analysis EXCEPT !.pc = "raised", !.raised = "before_step_1"]
    /\ UNCHANGED <<dag_vars, ingestion>>

(* Step 1, load_data_for_analysis: four queries one after the other, each  *)
(* stored in self.data as it returns and followed by a print; returned     *)
(* counts the queries that were stored, ok tells that nothing raised (the  *)
(* print after the fourth store can).                                       *)
load_data_for_analysis ==
    /\ analysis.pc = "load_data_for_analysis"
    /\ \E returned \in 0..Len(data_queries), ok \in BOOLEAN,
          positive, negative \in 0..MaxSampleSize :
          \E loaded \in {[analysis EXCEPT
                            !.data = {data_queries[i] : i \in 1..returned},
                            !.sample_sizes = IF returned >= 1
                                               THEN <<positive, negative>>
                                               ELSE @]} :
            analysis' =
              IF returned = Len(data_queries) /\ ok
                THEN [loaded EXCEPT
                        !.pc = "perform_hypothesis_test",
                        !.trace = Append(@, "load_data_for_analysis")]
                ELSE [loaded EXCEPT
                        !.pc = "raised",
                        !.raised = "load_data_for_analysis",
                        !.trace = Append(@, "load_data_for_analysis")]
    /\ UNCHANGED <<dag_vars, ingestion>>

(* Step 2, perform_hypothesis_test: the t-test and the effect size, then   *)
(* self.results['hypothesis_test'] is stored, then the results are         *)
(* printed; it can raise before or after the store.                        *)
perform_hypothesis_test ==
    /\ analysis.pc = "perform_hypothesis_test"
    /\ \E outcome \in {"returns", "raises_before_store", "raises_after_store"} :
          analysis' =
            CASE outcome = "returns" /\ "ttest" \in analysis.data ->
                   [analysis EXCEPT
                      !.pc = "analyze_length_rating_correlation",
                      !.trace = Append(@, "perform_hypothesis_test"),
                      !.results = @ \cup {"hypothesis_test"}]
              [] outcome = "raises_after_store" /\ "ttest" \in analysis.data ->
                   [AnalysisFailed("perform_hypothesis_test") EXCEPT
                      !.results = @ \cup {"hypothesis_test"}]
              [] OTHER -> AnalysisFailed("perform_hypothesis_test")
    /\ UNCHANGED <<dag_vars, ingestion>>

(* Variant: a correlation that cannot be computed is skipped and the       *)
(* analysis goes on.                                                        *)
analyze_length_rating_correlation_skips ==
    /\ analysis.pc = "analyze_length_rating_correlation"
    /\ \E ok \in BOOLEAN :
          analysis' = [analysis EXCEPT
                         !.pc = "perform_additional_analyses",
                         !.trace = Append(@, "analyze_length_rating_correlation"),
                         !.results = IF ok THEN @ \cup {"correlation_analysis"}
                                           ELSE @]
    /\ UNCHANGED <<dag_vars, ingestion>>

(* Step 3, analyze_length_rating_correlation: pearsonr and spearmanr, then *)
(* self.results['correlation_analysis'] is stored, then the statistics by  *)
(* length category; it can raise before or after the store.                *)
analyze_length_rating_correlation ==
    /\ analysis.pc = "analyze_length_rating_correlation"
    /\ \E outcome \in {"returns", "raises_before_store", "raises_after_store"} :
          analysis' =
            CASE outcome = "returns" /\ "correlation" \in analysis.data ->
                   [analysis EXCEPT
                      !.pc = "perform_additional_analyses",
                      !.trace = Append(@, "analyze_length_rating_correlation"),
                      !.results = @ \cup {"correlation_analysis"}]
              [] outcome = "raises_after_store" /\ "correlation" \in analysis.data ->
                   [AnalysisFailed("analyze_length_rating_correlation") EXCEPT
                      !.results = @ \cup {"correlation_analysis"}]
              [] OTHER -> AnalysisFailed("analyze_length_rating_correlation")
    /\ UNCHANGED <<dag_vars, ingestion>>

(* Step 4, perform_additional_analyses: ANOVA, word count, normality; the  *)
(* results are stored at the end.                                           *)
perform_additional_analyses ==
    /\ analysis.pc = "perform_additional_analyses"
    /\ \E ok \in BOOLEAN :
          analysis' =
            IF ok /\ {"ttest", "correlation"} \subseteq analysis.data
              THEN [analysis EXCEPT
                      !.pc = "generate_statistical_summary",
                      !.trace = Append(@, "perform_additional_analyses"),
                      !.results = @ \cup {"additional_analyses"}]
              ELSE AnalysisFailed("perform_additional_analyses")
    /\ UNCHANGED <<dag_vars, ingestion>>

(* Step 5, generate_statistical_summary: reads results['hypothesis_test']  *)
(* and results['correlation_analysis'] (a KeyError when one is absent) and *)
(* prints.                                                                  *)
generate_statistical_summary ==
    /\ analysis.pc = "generate_statistical_summary"
    /\ \E ok \in BOOLEAN :
          analysis' =
            IF ok /\ {"hypothesis_test", "correlation_analysis"}
                        \subseteq analysis.results
              THEN [analysis EXCEPT
                      !.pc = "save_results_to_bigquery",
                      !.trace = Append(@, "generate_statistical_summary")]
              ELSE AnalysisFailed("generate_statistical_summary")
    /\ UNCHANGED <<dag_vars, ingestion>>

(* Step 6, save_results_to_bigquery: builds the rows from the two results  *)
(* (a KeyError when one is absent) and runs a WRITE_TRUNCATE load job on   *)
(* statistical_results; waiting for the job can raise whether or not the   *)
(* table was written.  Then "ANALYSIS COMPLETE" is printed, still inside   *)
(* the try, and self.results returned; the message starts with U+1F389 and *)
(* print raises UnicodeEncodeError on a stdout that cannot encode it.      *)
save_results_to_bigquery ==
    /\ analysis.pc = "save_results_to_bigquery"
    /\ \E written, ok, encodable \in BOOLEAN :
          /\ ok => written
          /\ \E saved \in {IF written /\ {"hypothesis_test", "correlation_analysis"}
                                            \subseteq analysis.results
                              THEN [analysis EXCEPT !.statistical_results =
                                      [origin |-> "this_call",
                                       sample_sizes |-> analysis.sample_sizes]]
                              ELSE analysis} :
                analysis' =
                  IF ok /\ {"hypothesis_test", "correlation_analysis"}
                              \subseteq analysis.results
                    THEN [saved EXCEPT
                            !.pc = IF encodable THEN "completed" ELSE "raised",
                            !.trace = Append(@, "save_results_to_bigquery"),
                            !.complete = encodable,
                            !.raised = IF encodable THEN @ ELSE "complete_message"]
                    ELSE [saved EXCEPT
                            !.pc = "raised",
                            !.raised = "save_results_to_bigquery",
                            !.trace = Append(@, "save_results_to_bigquery")]
    /\ UNCHANGED <<dag_vars, ingestion>>

----------------------------------------------------------------------------
Init ==
    /\ edges \in GraphDefinitions
    /\ dagrun = "parsing"
    /\ state = [n \in Tasks |-> "none"]
    /\ try_number = [n \in Tasks |-> 0]
    /\ query_result = [g \in QualityChecks |-> ""]
    /\ run_id = 1
    /\ active_runs = {}
    /\ ingestion = IngestionStart(RawColumns)
    /\ analysis = AnalysisStart("absent")

(* Variant: the definition is accepted without the topological sort.      *)
ValidateNoSort ==
    /\ dagrun = "parsing"
    /\ dagrun' = "running"
    /\ active_runs' = active_runs \cup {run_id}
    /\ UNCHANGED <<edges, state, try_number, query_result, run_id, ingestion, analysis>>

(* validate(): a cyclic definition is rejected before a run exists.        *)
Validate ==
    /\ dagrun = "parsing"
    /\ dagrun' = IF HasCycle(edges) THEN "import_error" ELSE "running"
    /\ active_runs' = IF HasCycle(edges) THEN active_runs
                                         ELSE active_runs \cup {run_id}
    /\ UNCHANGED <<edges, state, try_number, query_result, run_id, ingestion, analysis>>

(* Variant: trigger rule all_done, a task starts once every upstream task *)
(* has finished, whatever its state.                                        *)
DispatchAllDone(n) ==
    /\ dagrun = "running"
    /\ state[n] = "none"
    /\ \A m \in Upstream(n) : state[m] \in {"success", "failed", "upstream_failed"}
    /\ state' = [state EXCEPT ![n] = "running"]
    /\ try_number' = [try_number EXCEPT ![n] = @ + 1]
    /\ UNCHANGED <<run_id, active_runs, edges, dagrun, query_result, ingestion, analysis>>

(* Variant: trigger rule one_success, one succeeded upstream task is       *)
(* enough.                                                                  *)
DispatchOneSuccess(n) ==
    /\ dagrun = "running"
    /\ state[n] = "none"
    /\ Upstream(n) # {} => \E m \in Upstream(n) : state[m] = "success"
    /\ state' = [state EXCEPT ![n] = "running"]
    /\ try_number' = [try_number EXCEPT ![n] = @ + 1]
    /\ UNCHANGED <<run_id, active_runs, edges, dagrun, query_result, ingestion, analysis>>

(* Variant: trigger rule always, a task starts whatever its upstream.      *)
DispatchAlways(n) ==
    /\ dagrun = "running"
    /\ state[n] = "none"
    /\ state' = [state EXCEPT ![n] = "running"]
    /\ try_number' = [try_number EXCEPT ![n] = @ + 1]
    /\ UNCHANGED <<run_id, active_runs, edges, dagrun, query_result, ingestion, analysis>>

(* A task starts when every upstream task is "success" (all_success).      *)
Dispatch(n) ==
    /\ dagrun = "running"
    /\ state[n] = "none"
    /\ \A m \in Upstream(n) : state[m] = "success"
    /\ state' = [state EXCEPT ![n] = "running"]
    /\ try_number' = [try_number EXCEPT ![n] = @ + 1]
    /\ UNCHANGED <<run_id, active_runs, edges, dagrun, query_result, ingestion, analysis>>

(* Variant: a completion that arrives after the task was marked failed is *)
(* recorded all the same.                                                   *)
TaskSucceedsLate(n) ==
    /\ state[n] \in {"running", "failed"}
    /\ state' = [state EXCEPT ![n] = "success"]
    /\ IF n \in QualityChecks
         THEN \E r \in {"PASS", "FAIL"} :
                  query_result' = [query_result EXCEPT ![n] = r]
         ELSE UNCHANGED query_result
    /\ UNCHANGED <<run_id, active_runs, edges, dagrun, try_number, ingestion, analysis>>

(* The operator returns.  A quality check returns whatever its SELECT      *)
(* yields; the row is not read by anything in the DAG.                     *)
TaskSucceeds(n) ==
    /\ state[n] = "running"
    /\ state' = [state EXCEPT ![n] = "success"]
    /\ IF n \in QualityChecks
         THEN \E r \in {"PASS", "FAIL"} :
                  query_result' = [query_result EXCEPT ![n] = r]
         ELSE UNCHANGED query_result
    /\ UNCHANGED <<run_id, active_runs, edges, dagrun, try_number, ingestion, analysis>>

(* The tasks one of whose attempts has raised. *)
HasFailed(n) == try_number[n] > 1 \/ state[n] \in {"up_for_retry", "failed"}

(* Variant: no retry at all, the first exception fails the task.           *)
TaskFailsNoRetry(n) ==
    /\ state[n] = "running"
    /\ Cardinality({m \in Tasks \ {n} : HasFailed(m)}) < MaxFailingTasks
    /\ state' = [state EXCEPT ![n] = "failed"]
    /\ UNCHANGED <<run_id, active_runs, edges, dagrun, try_number, query_result, ingestion, analysis>>

(* Variant: one retry fewer than default_args grants.                      *)
TaskFailsOneRetryLess(n) ==
    /\ state[n] = "running"
    /\ Cardinality({m \in Tasks \ {n} : HasFailed(m)}) < MaxFailingTasks
    /\ state' = [state EXCEPT ![n] =
                    IF try_number[n] < retries THEN "up_for_retry"
                                               ELSE "failed"]
    /\ UNCHANGED <<run_id, active_runs, edges, dagrun, try_number, query_result, ingestion, analysis>>

(* Variant: one retry more than default_args grants.                       *)
TaskFailsOneRetryMore(n) ==
    /\ state[n] = "running"
    /\ Cardinality({m \in Tasks \ {n} : HasFailed(m)}) < MaxFailingTasks
    /\ state' = [state EXCEPT ![n] =
                    IF try_number[n] <= retries + 1 THEN "up_for_retry"
                                                    ELSE "failed"]
    /\ UNCHANGED <<run_id, active_runs, edges, dagrun, try_number, query_result, ingestion, analysis>>

(* The operator raises: retried while attempts remain, else failed.  The   *)
(* external systems make at most MaxFailingTasks distinct tasks raise.     *)
TaskFails(n) ==
    /\ state[n] = "running"
    /\ Cardinality({m \in Tasks \ {n} : HasFailed(m)}) < MaxFailingTasks
    /\ state' = [state EXCEPT ![n] =
                    IF try_number[n] <= retries THEN "up_for_retry"
                                                ELSE "failed"]
    /\ UNCHANGED <<run_id, active_runs, edges, dagrun, try_number, query_result, ingestion, analysis>>

(* retry_delay has elapsed. *)
Retry(n) ==
    /\ state[n] = "up_for_retry"
    /\ state' = [state EXCEPT ![n] = "running"]
    /\ try_number' = [try_number EXCEPT ![n] = @ + 1]
    /\ UNCHANGED <<run_id, active_runs, edges, dagrun, query_result, ingestion, analysis>>

(* Variant: only a failed upstream task is propagated, not one that was    *)
(* itself marked upstream_failed.                                           *)
UpstreamFailedDirectOnly(n) ==
    /\ dagrun = "running"
    /\ state[n] = "none"
    /\ \E m \in Upstream(n) : state[m] = "failed"
    /\ state' = [state EXCEPT ![n] = "upstream_failed"]
    /\ UNCHANGED <<run_id, active_runs, edges, dagrun, try_number, query_result, ingestion, analysis>>

(* Variant: a failure anywhere in the run stops every task not yet started. *)
UpstreamFailedAnyFailure(n) ==
    /\ dagrun = "running"
    /\ state[n] = "none"
    /\ \E m \in Tasks : state[m] = "failed"
    /\ state' = [state EXCEPT ![n] = "upstream_failed"]
    /\ UNCHANGED <<run_id, active_runs, edges, dagrun, try_number, query_result, ingestion, analysis>>

(* all_success can no longer be met: an upstream task failed or was itself *)
(* marked upstream_failed.                                                  *)
UpstreamFailed(n) ==
    /\ dagrun = "running"
    /\ state[n] = "none"
    /\ \E m \in Upstream(n) : state[m] \in {"failed", "upstream_failed"}
    /\ state' = [state EXCEPT ![n] = "upstream_failed"]
    /\ UNCHANGED <<run_id, active_runs, edges, dagrun, try_number, query_result, ingestion, analysis>>

Finished == {"success", "failed", "upstream_failed"}

is_resolved == \A n \in Tasks : state[n] \in Finished

(* Variant: a sink that never ran does not fail the run.                   *)
RunVerdictFailedOnly ==
    IF \E n \in Leaves(Tasks) : state[n] = "failed"
    THEN "failed" ELSE "success"

(* The run's state, decided by the tasks without downstream once no task   *)
(* is unfinished.                                                           *)
RunVerdict ==
    IF \E n \in Leaves(Tasks) : state[n] \in {"failed", "upstream_failed"}
    THEN "failed" ELSE "success"

UpdateState ==
    /\ dagrun = "running"
    /\ is_resolved
    /\ dagrun' = RunVerdict
    /\ active_runs' = active_runs \ {run_id}
    /\ UNCHANGED <<edges, state, try_number, query_result, run_id, ingestion, analysis>>

(* Variant: the schedule starts a run whatever the number of active runs.  *)
ScheduleTickNoLimit ==
    /\ dagrun \in {"running", "success", "failed"}
    /\ run_id < MaxRuns
    /\ run_id' = run_id + 1
    /\ active_runs' = active_runs \cup {run_id + 1}
    /\ dagrun' = "running"
    /\ state' = [n \in Tasks |-> "none"]
    /\ try_number' = [n \in Tasks |-> 0]
    /\ query_result' = [g \in QualityChecks |-> ""]
    /\ UNCHANGED <<edges, ingestion, analysis>>

(* schedule_interval: the next run of the loaded DAG starts, with fresh     *)
(* task instances, unless max_active_runs runs are active.                  *)
ScheduleTick ==
    /\ dagrun \in {"running", "success", "failed"}
    /\ run_id < MaxRuns
    /\ Cardinality(active_runs) < max_active_runs
    /\ run_id' = run_id + 1
    /\ active_runs' = active_runs \cup {run_id + 1}
    /\ dagrun' = "running"
    /\ state' = [n \in Tasks |-> "none"]
    /\ try_number' = [n \in Tasks |-> 0]
    /\ query_result' = [g \in QualityChecks |-> ""]
    /\ UNCHANGED <<edges, ingestion, analysis>>

Next ==
    \/ Validate
    \/ \E n \in Tasks : Dispatch(n)
    \/ \E n \in Tasks : TaskSucceeds(n)
    \/ \E n \in Tasks : TaskFails(n)
    \/ \E n \in Tasks : Retry(n)
    \/ \E n \in Tasks : UpstreamFailed(n)
    \/ UpdateState
    \/ ScheduleTick

Spec == Init /\ [][Next]_vars

(* The scheduler loop keeps running and every operator returns.            *)
FairSpec == Spec /\ WF_vars(Next)

----------------------------------------------------------------------------
(* The scripts are run by hand, each on its own; the DAG is not running.   *)
DagIdle ==
    /\ edges = TaskDependencies
    /\ dagrun = "parsing"
    /\ state = [n \in Tasks |-> "none"]
    /\ try_number = [n \in Tasks |-> 0]
    /\ query_result = [g \in QualityChecks |-> ""]
    /\ run_id = 1
    /\ active_runs = {}

(* main() of 01_data_ingestion.py: one call of run_pipeline on a CSV file  *)
(* with any header.                                                         *)
IngestionInit ==
    /\ DagIdle
    /\ analysis = AnalysisStart("absent")
    /\ \E columns \in SUBSET RawColumns : ingestion = IngestionStart(columns)

IngestionNext ==
    \/ load_and_clean_data
    \/ upload_to_gcs
    \/ load_to_bigquery
    \/ validate_data_quality
    \/ quality_check
    \/ pipeline_completed

IngestionSpec == IngestionInit /\ [][IngestionNext]_vars

(* main() of 02_statistical_analysis.py: one call of                       *)
(* run_complete_analysis; the results table is absent or left by an        *)
(* earlier call.                                                            *)
AnalysisInit ==
    /\ DagIdle
    /\ ingestion = IngestionStart(RawColumns)
    /\ \E origin \in {"absent", "earlier_call"} : analysis = AnalysisStart(origin)

AnalysisNext ==
    \/ start_analysis
    \/ load_data_for_analysis
    \/ perform_hypothesis_test
    \/ analyze_length_rating_correlation
    \/ perform_additional_analyses
    \/ generate_statistical_summary
    \/ save_results_to_bigquery

AnalysisSpec == AnalysisInit /\ [][AnalysisNext]_vars

----------------------------------------------------------------------------
(* Properties.                                                              *)

(* The task has been dispatched at least once. *)
Dispatched(n) == try_number[n] > 0

(* The step stays within the current run. *)
SameRun == run_id' = run_id

RECURSIVE Reach(_, _)
Reach(E, frontier) ==
    LET more == frontier \cup {m \in Tasks : \E n \in frontier : <<n, m>> \in E}
    IN  IF more = frontier THEN frontier ELSE Reach(E, more)

(* The strict descendants of a task in the program's graph. *)
Descendants(n) ==
    Reach(TaskDependencies, {m \in Tasks : <<n, m>> \in TaskDependencies})

AllSuccess(g) == \A n \in g : state[n] = "success"

(* C1: no task is running, or has ever been dispatched, unless every one   *)
(* of its upstream tasks is "success"; over the chains inside the groups,  *)
(* the group-to-group edges and the chain to run_dbt_models and            *)
(* pipeline_summary.                                                        *)
C1_UpstreamSucceededBeforeDispatch ==
    \A e \in TaskDependencies :
        (Dispatched(e[2]) \/ state[e[2]] \in {"running", "up_for_retry", "success", "failed"})
            => state[e[1]] = "success"

C1_Witness ==
    /\ state[pipeline_summary] = "running"
    /\ state[run_dbt_models] = "success"

(* C2: refresh_external_tables never starts until all four tasks of the    *)
(* Redshift group and all four tasks of the BigQuery group are "success".  *)
C2_JoinBarrier ==
    Dispatched(refresh_external_tables)
        => AllSuccess(redshift_group) /\ AllSuccess(bigquery_group)

C2_Witness ==
    /\ state[refresh_external_tables] = "running"
    /\ AllSuccess(redshift_group \cup bigquery_group)

(* C3: a quality check whose query yields 'FAIL' keeps every strict        *)
(* descendant from ever running and leaves it "upstream_failed" when the   *)
(* run is resolved.                                                         *)
C3_GateFailSkipsDescendants ==
    \A g \in QualityChecks :
        query_result[g] = "FAIL" =>
            \A d \in Descendants(g) :
                /\ ~Dispatched(d)
                /\ is_resolved => state[d] = "upstream_failed"

(* C4: when the Redshift group succeeds and export_to_gcs exhausts its     *)
(* retries, at resolution the BigQuery group is failed (a member is        *)
(* "failed": the two tasks before the export are "success", the check      *)
(* after it never ran), the Snowflake tasks and the two final tasks never  *)
(* ran and are "upstream_failed", and the run is failed.                   *)
C4_BigQueryExportExhausted ==
    (/\ is_resolved
     /\ AllSuccess(redshift_group)
     /\ state[export_bigquery_to_gcs] = "failed")
    => /\ \E n \in bigquery_group : state[n] = "failed"
       /\ state[load_bigquery_data] = "success"
       /\ state[transform_bigquery_data] = "success"
       /\ state[bigquery_quality_check] = "upstream_failed"
       /\ ~Dispatched(bigquery_quality_check)
       /\ \A n \in snowflake_group \cup {run_dbt_models, pipeline_summary} :
              state[n] = "upstream_failed" /\ ~Dispatched(n)
       /\ RunVerdict = "failed"
       /\ dagrun \in {"running", "failed"}

C4_Witness ==
    /\ dagrun = "failed"
    /\ AllSuccess(redshift_group)
    /\ state[export_bigquery_to_gcs] = "failed"
    /\ try_number[export_bigquery_to_gcs] = MaxAttempts

(* C5: with the scheduler running and every operator returning, a run of   *)
(* the acyclic graph reaches a state where every task is finished.         *)
C5_RunTerminates ==
    [](~HasCycle(edges) => <>is_resolved)

C5_Witness ==
    /\ is_resolved
    /\ \E n \in Tasks : state[n] = "success" /\ try_number[n] > 1
    /\ \E n \in Tasks : state[n] = "upstream_failed"

(* C6: a task that raised fewer than MaxAttempts times is never failed, it *)
(* leaves retrying only to run again, its downstream task can start as     *)
(* soon as every upstream is "success" whatever the number of attempts,    *)
(* and a run is failed only if some task exhausted its attempts.           *)
C6_RetryMasksTransientFailure ==
    /\ \A n \in Tasks : state[n] = "failed" => try_number[n] = MaxAttempts
    /\ \A n \in Tasks :
           (/\ dagrun = "running"
            /\ state[n] = "none"
            /\ \A m \in Upstream(n) : state[m] = "success")
           => ENABLED Dispatch(n)
    /\ dagrun = "failed"
           => \E n \in Tasks : state[n] = "failed" /\ try_number[n] = MaxAttempts
    /\ (is_resolved /\ \A n \in Tasks : state[n] # "failed")
           => AllSuccess(Tasks) /\ RunVerdict = "success"

C6_Witness ==
    /\ dagrun = "success"
    /\ try_number[load_redshift_staging] = MaxAttempts
    /\ try_number[refresh_external_tables] = 2

(* C7: a task is attempted at most MaxAttempts times; after the last       *)
(* attempt raised it is failed, not retrying, and stays failed for the     *)
(* rest of the run; a resolved                                              *)
(* run that contains a failed task is failed.                               *)
C7_Invariant ==
    /\ \A n \in Tasks : try_number[n] <= MaxAttempts
    /\ \A n \in Tasks : state[n] = "up_for_retry" => try_number[n] < MaxAttempts
    /\ (\E n \in Tasks : state[n] = "failed")
           => /\ dagrun \in {"running", "failed"}
              /\ is_resolved => RunVerdict = "failed"

C7_RetryExhaustion ==
    /\ []C7_Invariant
    /\ [][SameRun => \A n \in Tasks : state[n] = "failed" => state'[n] = "failed"]_vars

C7_Witness ==
    /\ dagrun = "failed"
    /\ state[create_unified_kpis] = "failed"
    /\ try_number[create_unified_kpis] = MaxAttempts

(* C8: a resolved run is "success" exactly when every task is "success";   *)
(* with a failed or upstream_failed task it is "failed".                   *)
C8_RunVerdict ==
    /\ is_resolved => (RunVerdict = "success" <=> AllSuccess(Tasks))
    /\ dagrun \in {"success", "failed"}
           => /\ is_resolved
              /\ dagrun = "success" <=> AllSuccess(Tasks)

C8_Witness ==
    /\ dagrun = "failed"
    /\ state[pipeline_summary] = "upstream_failed"
    /\ AllSuccess(redshift_group \cup bigquery_group)

(* C9: a quality check that returns 'FAIL' without raising is itself       *)
(* "success", and the finished run is reported failed.                     *)
C9_GateFailFailsRun ==
    \A g \in QualityChecks :
        query_result[g] = "FAIL" =>
            /\ state[g] = "success"
            /\ dagrun \in {"running", "failed"}

(* C10: a graph definition with a cycle never gets a run: validation ends  *)
(* in the import error while every task is "none" and no attempt was made. *)
C10_CycleRejected ==
    HasCycle(edges) =>
        /\ dagrun \in {"parsing", "import_error"}
        /\ \A n \in Tasks : state[n] = "none" /\ try_number[n] = 0

C10_Witness ==
    /\ HasCycle(edges)
    /\ dagrun = "import_error"

(* The tasks a task depends on, directly or not, in the program's graph.   *)
DescendantsOf == [n \in Tasks |-> Descendants(n)]

Ancestors(n) == {m \in Tasks : n \in DescendantsOf[m]}

(* The task can be dispatched in the current state. *)
Ready(n) ==
    /\ dagrun = "running"
    /\ state[n] = "none"
    /\ \A m \in Upstream(n) : state[m] = "success"

(* A step that makes a task of group g failed leaves the tasks of group h  *)
(* as they are.                                                             *)
FailureLeaves(g, h) ==
    \A r \in g :
        (state[r] # "failed" /\ state'[r] = "failed")
            => \A b \in h : state'[b] = state[b] /\ try_number'[b] = try_number[b]

(* C11: a failed task of the Redshift or BigQuery group never changes or   *)
(* skips a task of the other group: a task of a group is upstream_failed   *)
(* only when a task of its own group failed, its tasks stay dispatchable   *)
(* on their own upstream, and the run gets its state only once every task  *)
(* is finished.                                                             *)
C11_Invariant ==
    /\ \A b \in bigquery_group :
           state[b] = "upstream_failed" => \E m \in bigquery_group : state[m] = "failed"
    /\ \A r \in redshift_group :
           state[r] = "upstream_failed" => \E m \in redshift_group : state[m] = "failed"
    /\ \A n \in redshift_group \cup bigquery_group :
           Ready(n) => ENABLED Dispatch(n)
    /\ dagrun \in {"success", "failed"} => is_resolved

C11_FailureContainment ==
    /\ []C11_Invariant
    /\ [][/\ FailureLeaves(redshift_group, bigquery_group)
          /\ FailureLeaves(bigquery_group, redshift_group)]_vars

C11_Witness ==
    /\ state[load_redshift_staging] = "failed"
    /\ \A r \in redshift_group \ {load_redshift_staging} : state[r] = "upstream_failed"
    /\ AllSuccess(bigquery_group)
    /\ dagrun = "failed"

(* A step that changes a task of group g leaves the tasks of group h as    *)
(* they are.                                                                *)
StepLeaves(g, h) ==
    \A r \in g :
        state'[r] # state[r]
            => \A b \in h : state'[b] = state[b] /\ try_number'[b] = try_number[b]

(* C12: no task of the Redshift group depends on a task of the BigQuery    *)
(* group or the other way round, a transition of one chain leaves the      *)
(* other chain untouched, and the final state of every task is decided by  *)
(* which tasks exhausted their attempts, not by the order of the steps.    *)
C12_Invariant ==
    /\ \A r \in redshift_group : \A b \in bigquery_group :
           b \notin DescendantsOf[r] /\ r \notin DescendantsOf[b]
    /\ is_resolved =>
           \A n \in Tasks :
               IF \E m \in Ancestors(n) : state[m] = "failed"
               THEN state[n] = "upstream_failed"
               ELSE state[n] \in {"success", "failed"}

C12_IndependentPhases ==
    /\ []C12_Invariant
    /\ [][SameRun => /\ StepLeaves(redshift_group, bigquery_group)
                     /\ StepLeaves(bigquery_group, redshift_group)]_vars

C12_Witness ==
    /\ state[transform_redshift_data] = "running"
    /\ state[export_bigquery_to_gcs] = "running"

(* C13, as stated: a task with an upstream task that is not "success" is   *)
(* in its initial state "none".                                             *)
C13_UnmetUpstreamStaysPending ==
    \A e \in TaskDependencies :
        state[e[1]] # "success" => state[e[2]] = "none"

(* C13, amended: a task with an upstream task that is not "success" has    *)
(* never been dispatched; it is "none", or "upstream_failed" once an       *)
(* upstream task is failed or upstream_failed.                              *)
C13_UnmetUpstreamNeverRuns ==
    \A e \in TaskDependencies :
        state[e[1]] # "success" =>
            /\ ~Dispatched(e[2])
            /\ state[e[2]] \in {"none", "upstream_failed"}
            /\ state[e[2]] = "upstream_failed"
                   => \E u \in TaskDependencies :
                          u[2] = e[2] /\ state[u[1]] \in {"failed", "upstream_failed"}

C13_Witness ==
    /\ state[export_bigquery_to_gcs] = "failed"
    /\ state[bigquery_quality_check] = "upstream_failed"
    /\ state[refresh_external_tables] = "none"

(* C14: with retries = 2 a task is attempted at most three times; every    *)
(* attempt is counted once and starts from a task that is not running; an  *)
(* attempt that raises leads to up_for_retry only below MaxAttempts and to *)
(* failed only at MaxAttempts.                                              *)
C14_Invariant ==
    /\ MaxAttempts = 3
    /\ \A n \in Tasks : try_number[n] \in 0..3

C14_AttemptStep ==
    \A n \in Tasks :
        /\ (state[n] = "running" /\ state'[n] = "up_for_retry")
               => try_number[n] < MaxAttempts
        /\ (state[n] # "failed" /\ state'[n] = "failed")
               => state[n] = "running" /\ try_number[n] = MaxAttempts
        /\ (state[n] # "up_for_retry" /\ state'[n] = "up_for_retry")
               => state[n] = "running"
        /\ (state[n] # "running" /\ state'[n] = "running")
               => try_number'[n] = try_number[n] + 1

C14_BoundedRetries ==
    /\ []C14_Invariant
    /\ [][C14_AttemptStep]_vars

C14_Witness ==
    /\ state[transform_bigquery_data] = "up_for_retry"
    /\ try_number[transform_bigquery_data] = retries

TaskGroups == {redshift_group, bigquery_group, snowflake_group}

(* C16: a task that is success, failed or upstream_failed keeps its state  *)
(* and its attempt count in every later step of the run.                   *)
C16_TerminalAbsorbing ==
    [][SameRun =>
           \A n \in Tasks :
               state[n] \in Finished
                   => state'[n] = state[n] /\ try_number'[n] = try_number[n]]_vars

C16_Witness ==
    /\ dagrun = "failed"
    /\ state[cross_platform_validation] = "success"
    /\ state[run_dbt_models] = "failed"
    /\ state[pipeline_summary] = "upstream_failed"

(* C17: once a member of a task group is failed, no other member of the    *)
(* group is running or retrying, none enters running or is recorded as     *)
(* success afterwards, and the members that had not succeeded end          *)
(* upstream_failed.                                                         *)
C17_Invariant ==
    \A g \in TaskGroups : \A m \in g :
        state[m] = "failed" =>
            \A n \in g \ {m} :
                /\ state[n] \in {"success", "none", "upstream_failed"}
                /\ state[n] # "success" => ~Dispatched(n)
                /\ is_resolved => state[n] \in {"success", "upstream_failed"}

C17_GroupStep ==
    \A g \in TaskGroups :
        (\E m \in g : state[m] = "failed") =>
            \A n \in g :
                /\ state'[n] = "running" => state[n] = "running"
                /\ state'[n] = "success" => state[n] = "success"

C17_NoMemberRunsAfterFailure ==
    /\ []C17_Invariant
    /\ [][C17_GroupStep]_vars

C17_Witness ==
    /\ state[transform_redshift_data] = "success"
    /\ state[export_redshift_to_s3] = "failed"
    /\ state[redshift_quality_check] = "upstream_failed"

(* C19, as stated: the task to dispatch is fixed by the state, so at most  *)
(* one task can be dispatched in any state.                                 *)
C19_OneDispatchPerState ==
    Cardinality({n \in Tasks : ENABLED Dispatch(n)}) <= 1

(* C19, amended: two tasks can be dispatched in the same state only when   *)
(* one is in the Redshift group and the other in the BigQuery group; the   *)
(* order of those two is open, every other dispatch is fixed by the state. *)
C19_DispatchChoice ==
    \A a \in Tasks : \A b \in Tasks \ {a} :
        (ENABLED Dispatch(a) /\ ENABLED Dispatch(b))
            => \/ a \in redshift_group /\ b \in bigquery_group
               \/ a \in bigquery_group /\ b \in redshift_group

C19_Witness ==
    /\ ENABLED Dispatch(load_redshift_staging)
    /\ ENABLED Dispatch(load_bigquery_data)

(* C20: at most one run is active; a new run starts only when every task   *)
(* of the earlier run is finished and its state is decided, it starts with *)
(* no task dispatched, and the dependency relation never changes.          *)
C20_Invariant ==
    /\ Cardinality(active_runs) <= 1
    /\ max_active_runs = 1
    /\ dagrun = "running" <=> active_runs = {run_id}

C20_Step ==
    /\ edges' = edges
    /\ run_id' # run_id
           => /\ is_resolved
              /\ dagrun \in {"success", "failed"}
              /\ active_runs = {}
              /\ \A n \in Tasks : state'[n] = "none" /\ try_number'[n] = 0

C20_OneActiveRun ==
    /\ []C20_Invariant
    /\ [][C20_Step]_vars

C20_Witness ==
    /\ run_id = 2
    /\ active_runs = {2}
    /\ state[load_redshift_staging] = "running"


(***************************************************************************)
(* C21: send_pipeline_summary is the only task without a downstream task;  *)
(* it has started, and an attempt of it starts, only while the 13 other    *)
(* tasks are all "success", so it never runs in a run where one of them is *)
(* "failed" or "upstream_failed".                                          *)
(***************************************************************************)
C21_Invariant ==
    /\ dagrun \in {"running", "success", "failed"} =>
           {n \in Tasks : Downstream(n) = {}} = {pipeline_summary}
    /\ Dispatched(pipeline_summary) =>
           /\ Cardinality(Tasks \ {pipeline_summary}) = 13
           /\ \A n \in Tasks \ {pipeline_summary} : state[n] = "success"

C21_Step ==
    (state[pipeline_summary] # "running" /\ state'[pipeline_summary] = "running")
        => \A n \in Tasks \ {pipeline_summary} : state[n] = "success"

C21_SummaryIsSink ==
    /\ []C21_Invariant
    /\ [][C21_Step]_vars

C21_Witness ==
    /\ state[pipeline_summary] = "success"
    /\ try_number[pipeline_summary] = 2
    /\ HasFailed(load_redshift_staging)

----------------------------------------------------------------------------
(* Properties of the scripts.                                               *)

(* t is the beginning of the sequence order.                               *)
IsPrefix(t, order) ==
    /\ Len(t) <= Len(order)
    /\ \A i \in 1..Len(t) : t[i] = order[i]

(* The step was called in the call described by the record r.              *)
Called(r, step) == \E i \in 1..Len(r.trace) : r.trace[i] = step

(***************************************************************************)
(* C22: run_pipeline calls load_and_clean_data, upload_to_gcs,             *)
(* load_to_bigquery, validate_data_quality in that order; when one of the  *)
(* first three raises no later step is called (no BigQuery load without    *)
(* the blob, no upload with a required column missing), the exception      *)
(* reaches the caller and the success summary is not printed.              *)
(***************************************************************************)
C22_Invariant ==
    /\ IsPrefix(ingestion.trace, run_pipeline)
    /\ Called(ingestion, "upload_to_gcs") =>
           /\ missing_columns(ingestion.columns) = {}
           /\ required_columns \subseteq ingestion.df_clean
    /\ missing_columns(ingestion.columns) # {} =>
           /\ ~ingestion.blob /\ ~ingestion.table
           /\ ingestion.pc \in {"load_and_clean_data", "raised"}
    /\ Called(ingestion, "load_to_bigquery") => ingestion.blob
    /\ ingestion.table => ingestion.blob
    /\ Called(ingestion, "validate_data_quality") => ingestion.table
    /\ ingestion.raised # "" =>
           /\ ingestion.pc = "raised"
           /\ ~ingestion.summary
           /\ IF ingestion.raised = "summary"
                 THEN ingestion.trace = run_pipeline
                 ELSE /\ ingestion.trace[Len(ingestion.trace)] = ingestion.raised
                      /\ ~ingestion.logged
    /\ ingestion.summary => ingestion.trace = run_pipeline

C22_Step ==
    /\ ingestion.pc = "raised" => ingestion' = ingestion
    /\ (ingestion.raised = "" /\ ingestion'.raised # ""
          /\ ingestion.pc \in {"load_and_clean_data", "upload_to_gcs",
                                "load_to_bigquery"}) =>
           /\ ingestion'.raised = ingestion.pc
           /\ ingestion'.trace = Append(ingestion.trace, ingestion.pc)
           /\ ingestion'.blob # ingestion.blob =>
                  ingestion.pc = "upload_to_gcs"
           /\ ingestion'.table # ingestion.table =>
                  ingestion.pc = "load_to_bigquery"

C22_PipelineStopsAtFirstFailure ==
    /\ []C22_Invariant
    /\ [][C22_Step]_vars

C22_Witness ==
    /\ ingestion.raised = "upload_to_gcs"
    /\ ingestion.trace = <<"load_and_clean_data", "upload_to_gcs">>
    /\ ~ingestion.table

(***************************************************************************)
(* C23: in validate_data_quality each of the five checks is attempted     *)
(* whatever the outcome of the others; a check that raises is logged and   *)
(* the loop goes on, the method returns, and run_pipeline logs its         *)
(* successful completion even when all five checks raised: no outcome of   *)
(* the checks blocks or fails the pipeline.                                *)
(***************************************************************************)
C23_Invariant ==
    /\ ingestion.raised # "validate_data_quality"
    /\ Len(ingestion.checks) <= Len(quality_checks)
    /\ ingestion.checks # << >> => Called(ingestion, "validate_data_quality")
    /\ ingestion.pc = "quality_checks" =>
           ENABLED (quality_check \/ pipeline_completed)
    /\ ingestion.logged <=>
           /\ Len(ingestion.checks) = Len(quality_checks)
           /\ ingestion.pc # "quality_checks"
    /\ ingestion.pc = "completed" => ingestion.logged /\ ingestion.summary

C23_Step ==
    /\ ingestion'.checks # ingestion.checks =>
           /\ Len(ingestion'.checks) = Len(ingestion.checks) + 1
           /\ ingestion'.pc = "quality_checks"
           /\ ingestion'.raised = ""
    /\ (ingestion.pc = "quality_checks" /\ ingestion'.pc # "quality_checks") =>
           /\ ingestion'.checks = ingestion.checks
           /\ ingestion'.logged

C23_QualityChecksNeverBlock ==
    /\ []C23_Invariant
    /\ [][C23_Step]_vars

C23_Witness ==
    /\ ingestion.pc = "completed"
    /\ ingestion.logged
    /\ ingestion.summary
    /\ Len(ingestion.checks) = 5
    /\ \A i \in 1..Len(ingestion.checks) : ingestion.checks[i] = "error"

(***************************************************************************)
(* C24: run_complete_analysis calls its six steps in order and stops at    *)
(* the first that raises; save_results_to_bigquery, the only writer of     *)
(* statistical_results, is called only after the five earlier steps        *)
(* returned, and when generate_statistical_summary or                      *)
(* save_results_to_bigquery is called results['hypothesis_test'] and       *)
(* results['correlation_analysis'] are stored.                             *)
(***************************************************************************)
C24_Invariant ==
    /\ IsPrefix(analysis.trace, run_complete_analysis)
    /\ (Called(analysis, "generate_statistical_summary")
          \/ Called(analysis, "save_results_to_bigquery")) =>
           {"hypothesis_test", "correlation_analysis"} \subseteq analysis.results
    /\ Called(analysis, "save_results_to_bigquery") =>
           /\ analysis.data = {data_queries[i] : i \in 1..Len(data_queries)}
           /\ analysis.results = {"hypothesis_test", "correlation_analysis",
                                   "additional_analyses"}
           /\ \A i \in 1..5 : analysis.trace[i] = run_complete_analysis[i]
    /\ analysis.raised # "" =>
           /\ analysis.pc = "raised"
           /\ ~analysis.complete
           /\ CASE analysis.raised = "before_step_1" ->
                      /\ analysis.trace = << >>
                      /\ analysis.data = {} /\ analysis.results = {}
                  [] analysis.raised = "complete_message" ->
                      /\ analysis.trace = run_complete_analysis
                      /\ analysis.statistical_results.origin = "this_call"
                  [] OTHER ->
                      analysis.trace[Len(analysis.trace)] = analysis.raised
    /\ analysis.complete => analysis.trace = run_complete_analysis

C24_Step ==
    /\ analysis.pc = "raised" => analysis' = analysis
    /\ (analysis.raised = "" /\ analysis'.raised # "") =>
           IF analysis.pc = "start"
             THEN /\ analysis'.raised = "before_step_1"
                  /\ analysis'.trace = analysis.trace
             ELSE /\ analysis'.trace = Append(analysis.trace, analysis.pc)
                  /\ analysis'.raised \in {analysis.pc, "complete_message"}
    /\ analysis'.statistical_results # analysis.statistical_results =>
           /\ analysis.pc = "save_results_to_bigquery"
           /\ analysis.trace = SubSeq(run_complete_analysis, 1, 5)

C24_AnalysisStopsAtFirstFailure ==
    /\ []C24_Invariant
    /\ [][C24_Step]_vars

C24_Witness ==
    /\ analysis.complete
    /\ analysis.statistical_results.origin = "this_call"
    /\ analysis.statistical_results.sample_sizes = <<MaxSampleSize, 1>>


====
